---- MODULE Spec2Model ----
(***************************************************************************)
(* The task-manager service: five cells (database, storage, metrics,       *)
(* tasks, api) composed by a component container, the lifecycle of their   *)
(* start/stop hooks, and the HTTP request handlers running concurrently    *)
(* over the in-memory storage and the atomic metrics counters.             *)
(***************************************************************************)
EXTENDS Integers, Sequences, FiniteSets, TLC

\* ------------------------------------------------------------------ bounds
\* Number of concurrent HTTP clients (worker goroutines serving a request).
NumClients == 2
\* Total number of HTTP requests accepted in one run.
MaxReq == 3
\* Largest clock value time.Now() returns.
MaxTime == 1
\* Largest number of Task objects allocated in one run.
MaxTasks == 2

Clients == 1..NumClients
Times == 0..MaxTime

VARIABLES
    lc,         \* the container's lifecycle: phase, hook stack, logs, errors
    connected,  \* db.connected
    srv,        \* the http.Server: "new", "listening", "bindfailed", "closing", "closed"
    data,       \* memoryStorage.data: key -> pointer (index into heap)
    heap,       \* the Task objects allocated so far; a *Task is an index
    now,        \* the last value time.Now() returned
    requests,   \* metrics.requests
    errors,     \* metrics.errors
    cl,         \* per client: the request being handled and the handler's position
    mu,         \* memoryStorage.mu: the holder of the write lock, the holders of read locks
    st,         \* per goroutine: the storage operation it is calling and how far it is
    hist        \* history variables the properties are stated over

vars == <<lc, connected, srv, data, heap, now, requests, errors, cl, mu, st, hist>>

\* fmt.Sprintf("task-%d", n): the prefix followed by the decimal number.
ID(t) == <<"task-", t>>

\* The keys a request can name: every id the clock can produce.
Keys == {ID(t) : t \in Times}

NoKey == <<>>

\* The map with no entry: a key maps to the nil pointer 0.
EmptyStore == [k \in Keys |-> 0]

\* The values of Task.Status: "pending" from Create, the others from Update.
Statuses == {"pending", "completed"}

\* statusCount := make(map[string]int): no status counted yet.
NoCount == [s \in Statuses |-> 0]

\* The stats map before GetStats fills it.
NoStats == [total |-> 0, requests |-> 0, errors |-> 0, byStatus |-> NoCount]

\* A response not yet written.
NoResp ==
    [op |-> "none", path |-> "", method |-> "", code |-> 0, task |-> {},
     msg |-> "", nerr |-> 0, old |-> {}, obs |-> {}, stats |-> NoStats]

\* The goroutine that runs the stop hooks, beside those serving requests.
Hook == NumClients + 1

Callers == Clients \cup {Hook}

\* The zero sync.RWMutex: no goroutine holds the write lock (w) or a read
\* lock (r).
Unlocked == [w |-> {}, r |-> {}]

\* A goroutine that is in no storage operation.
IdleCaller == [op |-> "none", stage |-> "idle"]

IdleClient ==
    [pc |-> "idle", path |-> "", method |-> "", id |-> NoKey, title |-> "",
     desc |-> "", status |-> "", ptr |-> 0, old |-> {}, snap |-> {},
     seen |-> {}, stats |-> NoStats, resp |-> NoResp]

\* ------------------------------------------------------- composition root
\* App: the cells in declaration order.
Modules == <<"database", "storage", "metrics", "tasks", "api">>

\* The cells each constructor takes as parameters (lc, logger and config are
\* supplied by the container itself).
newDatabaseRequires == {}

\* newStorage without its database parameter.
newStorageRequiresNone == {}

newStorageRequires == {"database"}

newMetricsRequires == {}

newTaskManagerRequires == {"storage", "metrics"}

newServerRequires == {"tasks", "metrics"}

\* cell.Invoke(func(api.Server) {}): what forces construction.
InvokeRequires == {"api"}

\* api.Config.Flags: the flags the api cell's configuration record binds,
\* as <<name, default>>.
apiFlags == {<<"api-port", "8080">>, <<"api-host", "localhost">>}

\* logger.Config.Flags: the flag of the logger cell's configuration record.
loggerFlags == {<<"log-level", "info">>}

\* cell.Config(defaultConfig) of each cell; database, storage, metrics and
\* tasks declare none.
ConfigFlags(c) ==
    CASE c = "api"    -> apiFlags
      [] c = "logger" -> loggerFlags
      [] OTHER        -> {}

\* h.RegisterFlags(rootCmd.Flags()): the flags of every cell of App.
RegisterFlags == UNION {ConfigFlags(Modules[i]) : i \in 1..Len(Modules)}

\* The command lines tried: no flag, or one flag with a well-formed value.
Args == {"", "api-host", "api-port", "log-level", "bogus"}

Requires(c) ==
    CASE c = "database" -> newDatabaseRequires
      [] c = "storage"  -> newStorageRequires
      [] c = "metrics"  -> newMetricsRequires
      [] c = "tasks"    -> newTaskManagerRequires
      [] c = "api"      -> newServerRequires

RECURSIVE Reach(_)
Reach(S) ==
    LET S2 == S \cup UNION {Requires(c) : c \in S}
    IN  IF S2 = S THEN S ELSE Reach(S2)

\* The providers the invoker transitively needs.
Needed == Reach(InvokeRequires)

SeqToSet(s) == {s[i] : i \in 1..Len(s)}

\* Provider execution order: the first cell in declaration order that is
\* needed, not yet constructed, and whose requirements all exist.
NextProvider ==
    LET done  == SeqToSet(lc.hooks)
        ready == {i \in 1..Len(Modules) :
                    /\ Modules[i] \in Needed \ done
                    /\ Requires(Modules[i]) \subseteq done}
    IN  IF ready = {} THEN "none"
        ELSE Modules[CHOOSE i \in ready : \A j \in ready : i <= j]

Reverse(s) == [i \in 1..Len(s) |-> s[Len(s) + 1 - i]]

\* ------------------------------------------------------------- lifecycle
\* lc.Append(hook) at the end of a constructor; the last provider built
\* hands over to the start phase.
Provided(c) ==
    LET hs == Append(lc.hooks, c)
        done == SeqToSet(hs)
    IN  lc' = [lc EXCEPT !.hooks = hs,
                         !.phase = IF Needed \subseteq done THEN "start" ELSE "populate"]

CanProvide(c) == lc.phase = "populate" /\ NextProvider = c

\* The start hook the container runs next.
CanStart(c) ==
    /\ lc.phase = "start"
    /\ lc.numStarted < Len(lc.hooks)
    /\ lc.hooks[lc.numStarted + 1] = c

\* A start hook returned nil.
StartReturned(c) ==
    lc' = [lc EXCEPT !.numStarted = @ + 1,
                     !.startLog = Append(@, c),
                     !.phase = IF lc.numStarted + 1 = Len(lc.hooks) THEN "run" ELSE "start"]

\* The stop hook the container runs next: the top of the started stack.
CanStop(c) ==
    /\ lc.phase = "stop"
    /\ lc.numStarted > 0
    /\ lc.hooks[lc.numStarted] = c

\* A stop hook returned err ("nil" or an error); errors are collected and
\* the remaining hooks still run.
StopReturned(c, err) ==
    lc' = [lc EXCEPT !.numStarted = @ - 1,
                     !.stopLog = Append(@, c),
                     !.stopErrs = IF err = "nil" THEN @ ELSE Append(@, <<c, err>>)]

\* ------------------------------------------------------------ entry point
\* Execute: the flags are registered, then rootCmd.Execute() parses the
\* command line. An unknown flag makes it return an error, which Execute
\* answers with os.Exit(1); otherwise rootCmd.Run calls h.Run.
ParseFlags ==
    /\ lc.phase = "flags"
    /\ \E a \in Args :
        IF a \in {""} \cup {f[1] : f \in RegisterFlags}
        THEN lc' = [lc EXCEPT !.phase = "populate"]
        ELSE lc' = [lc EXCEPT !.phase = "exit", !.flagErr = a, !.exitCode = 1]
    /\ UNCHANGED <<connected, srv, data, heap, now, requests, errors, cl, hist>>
    /\ UNCHANGED <<mu, st>>

\* ----------------------------------------------------------- constructors
newDatabase ==
    /\ CanProvide("database")
    /\ connected' = FALSE
    /\ Provided("database")
    /\ UNCHANGED <<srv, data, heap, now, requests, errors, cl, hist>>
    /\ UNCHANGED <<mu, st>>

newStorage ==
    /\ CanProvide("storage")
    /\ data' = EmptyStore
    /\ Provided("storage")
    /\ UNCHANGED <<connected, srv, heap, now, requests, errors, cl, hist>>
    /\ UNCHANGED <<mu, st>>

newMetrics ==
    /\ CanProvide("metrics")
    /\ requests' = 0
    /\ errors' = 0
    /\ Provided("metrics")
    /\ UNCHANGED <<connected, srv, data, heap, now, cl, hist>>
    /\ UNCHANGED <<mu, st>>

newTaskManager ==
    /\ CanProvide("tasks")
    /\ Provided("tasks")
    /\ UNCHANGED <<connected, srv, data, heap, now, requests, errors, cl, hist>>
    /\ UNCHANGED <<mu, st>>

\* newServer that starts serving in the constructor, not in OnStart.
newServerListens ==
    /\ CanProvide("api")
    /\ srv' = "listening"
    /\ Provided("api")
    /\ UNCHANGED <<connected, data, heap, now, requests, errors, cl, hist>>
    /\ UNCHANGED <<mu, st>>

newServer ==
    /\ CanProvide("api")
    /\ srv' = "new"
    /\ Provided("api")
    /\ UNCHANGED <<connected, data, heap, now, requests, errors, cl, hist>>
    /\ UNCHANGED <<mu, st>>

\* ------------------------------------------------------------- database
\* db.IsConnected
IsConnected == connected

\* db.Ping: context.DeadlineExceeded when not connected, else nil.
Ping == IF ~connected THEN "context deadline exceeded" ELSE "nil"

\* ------------------------------------------------------------ start hooks
\* An OnStart that returns before the connection is marked as open.
databaseOnStartNoConnect ==
    /\ CanStart("database")
    /\ connected' = connected
    /\ StartReturned("database")
    /\ UNCHANGED <<srv, data, heap, now, requests, errors, cl, hist>>
    /\ UNCHANGED <<mu, st>>

databaseOnStart ==
    /\ CanStart("database")
    /\ connected' = TRUE
    /\ StartReturned("database")
    /\ UNCHANGED <<srv, data, heap, now, requests, errors, cl, hist>>
    /\ UNCHANGED <<mu, st>>

storageOnStart ==
    /\ CanStart("storage")
    /\ hist' = [hist EXCEPT !.storageWarned = ~IsConnected]
    /\ StartReturned("storage")
    /\ UNCHANGED <<connected, srv, data, heap, now, requests, errors, cl>>
    /\ UNCHANGED <<mu, st>>

metricsOnStart ==
    /\ CanStart("metrics")
    /\ StartReturned("metrics")
    /\ UNCHANGED <<connected, srv, data, heap, now, requests, errors, cl, hist>>
    /\ UNCHANGED <<mu, st>>

tasksOnStart ==
    /\ CanStart("tasks")
    /\ StartReturned("tasks")
    /\ UNCHANGED <<connected, srv, data, heap, now, requests, errors, cl, hist>>
    /\ UNCHANGED <<mu, st>>

\* The listener is bound by ListenAndServe in a goroutine; the hook returns
\* nil whether or not the bind succeeds.
apiOnStart ==
    /\ CanStart("api")
    /\ \E bound \in BOOLEAN : srv' = IF bound THEN "listening" ELSE "bindfailed"
    /\ StartReturned("api")
    /\ UNCHANGED <<connected, data, heap, now, requests, errors, cl, hist>>
    /\ UNCHANGED <<mu, st>>

\* -------------------------------------------------------------- interrupt
\* SIGINT/SIGTERM while running: the container begins to stop.
Idle(c) == cl[c].pc = "idle"

AllIdle == \A c \in Clients : Idle(c)

Interrupt ==
    /\ lc.phase = "run"
    /\ lc' = [lc EXCEPT !.phase = "stop"]
    /\ UNCHANGED <<connected, srv, data, heap, now, requests, errors, cl, hist>>
    /\ UNCHANGED <<mu, st>>

\* ------------------------------------------------------------- stop hooks
\* httpServer.Shutdown closes the listener at once, then waits for the
\* connections in flight.
apiOnStopBegin ==
    /\ CanStop("api")
    /\ srv \in {"listening", "bindfailed"}
    /\ srv' = "closing"
    /\ hist' = [hist EXCEPT !.drain = ~AllIdle]
    /\ UNCHANGED <<lc, connected, data, heap, now, requests, errors, cl>>
    /\ UNCHANGED <<mu, st>>

\* Shutdown returns nil once no request is in flight, or the context's
\* error when the 5 s deadline passes with a request still in flight.
Shutdown(idle) == IF idle THEN "nil" ELSE "context deadline exceeded"

\* An OnStop that logs the Shutdown error and returns nil.
apiOnStopResultNil(err) == "nil"

\* if err := s.httpServer.Shutdown(shutdownCtx); err != nil { return err }
apiOnStopResult(err) == err

apiOnStopReturn ==
    /\ CanStop("api")
    /\ srv = "closing"
    /\ srv' = "closed"
    /\ StopReturned("api", apiOnStopResult(Shutdown(AllIdle)))
    /\ hist' = [hist EXCEPT !.timedOut = ~AllIdle, !.drain = @ /\ AllIdle]
    /\ UNCHANGED <<connected, data, heap, now, requests, errors, cl>>
    /\ UNCHANGED <<mu, st>>

tasksOnStop ==
    /\ CanStop("tasks")
    /\ StopReturned("tasks", "nil")
    /\ UNCHANGED <<connected, srv, data, heap, now, requests, errors, cl, hist>>
    /\ UNCHANGED <<mu, st>>

metricsOnStop ==
    /\ CanStop("metrics")
    /\ StopReturned("metrics", "nil")
    /\ UNCHANGED <<connected, srv, data, heap, now, requests, errors, cl, hist>>
    /\ UNCHANGED <<mu, st>>

storageOnStop ==
    /\ CanStop("storage")
    /\ data' = EmptyStore
    /\ StopReturned("storage", "nil")
    /\ hist' = [hist EXCEPT !.life = [k \in Keys |-> "never"],
                            !.ret = [c \in Clients |-> {}],
                            !.cleared = TRUE]
    /\ UNCHANGED <<connected, srv, heap, now, requests, errors, cl>>
    /\ UNCHANGED <<mu, st>>

\* An OnStop that leaves the connection marked as open.
databaseOnStopKeeps ==
    /\ CanStop("database")
    /\ connected' = connected
    /\ StopReturned("database", "nil")
    /\ UNCHANGED <<srv, data, heap, now, requests, errors, cl, hist>>
    /\ UNCHANGED <<mu, st>>

databaseOnStop ==
    /\ CanStop("database")
    /\ connected' = FALSE
    /\ StopReturned("database", "nil")
    /\ UNCHANGED <<srv, data, heap, now, requests, errors, cl, hist>>
    /\ UNCHANGED <<mu, st>>

\* h.Run returns: the start error if a start hook failed, else the stop
\* errors joined (the first one leads), else nil.
RunResult ==
    IF lc.startErr # "nil" THEN <<"StartError", lc.startErr>>
    ELSE IF lc.stopErrs # <<>> THEN <<"ShutdownError", lc.stopErrs[1]>>
    ELSE <<"nil", "nil">>

\* rootCmd.Run: os.Exit(1) when h.Run returned an error.
RunReturns ==
    /\ lc.phase = "stop"
    /\ lc.numStarted = 0
    /\ lc' = [lc EXCEPT !.phase = "exit",
                        !.result = RunResult,
                        !.exitCode = IF RunResult[1] = "nil" THEN 0 ELSE 1]
    /\ UNCHANGED <<connected, srv, data, heap, now, requests, errors, cl, hist>>
    /\ UNCHANGED <<mu, st>>

\* A start hook fails (its deadline expires): the hooks started so far are
\* stopped and the rest never start.
StartHookFails ==
    /\ lc.phase = "start"
    /\ lc.numStarted < Len(lc.hooks)
    /\ lc' = [lc EXCEPT !.phase = "stop",
                        !.startErr = lc.hooks[lc.numStarted + 1]]
    /\ UNCHANGED <<connected, srv, data, heap, now, requests, errors, cl, hist>>
    /\ UNCHANGED <<mu, st>>

\* ------------------------------------------------------------ task manager
\* The process is running: a handler goroutine can take a step.
Alive == lc.phase # "exit"

\* The endpoints handleRoot advertises: the methods listed for each path.
Listed(path) ==
    CASE path = "/"           -> {"GET"}
      [] path = "/health"     -> {"GET"}
      [] path = "/stats"      -> {"GET"}
      [] path = "/tasks"      -> {"GET", "POST"}
      [] path = "/tasks/{id}" -> {"GET", "PUT", "DELETE"}

\* The paths requested: those of the route table, "/tasks/{id}" standing for
\* "/tasks/" followed by one of the Keys.
Paths == {"/", "/health", "/stats", "/tasks", "/tasks/{id}"}

\* The methods requested on a path: the listed ones and one that is listed
\* for no path.
Methods(path) == Listed(path) \cup {"PATCH"}

\* The path suffix after "/tasks/".
Ids(path) == IF path = "/tasks/{id}" THEN Keys ELSE {NoKey}

NoBody == [title |-> "", desc |-> "", status |-> ""]

\* The bodies sent with PUT: no field, one field, or all three fields set.
UpdateBodies ==
    {b \in {[title |-> t, desc |-> d, status |-> s] :
                t \in {"", "b"}, d \in {"", "e"}, s \in {"", "completed"}} :
        Cardinality({f \in {"title", "desc", "status"} : b[f] # ""}) # 2}

\* The decoded JSON bodies sent with a request.
Bodies(path, method) ==
    IF path = "/tasks" /\ method = "POST"
    THEN {[title |-> t, desc |-> "d", status |-> ""] : t \in {"", "a"}}
    ELSE IF path = "/tasks/{id}" /\ method = "PUT"
    THEN UpdateBodies
    ELSE {NoBody}

\* The requests a client can send.
Routes ==
    UNION {UNION {UNION {
        {[path |-> p, method |-> m, id |-> k, title |-> b.title,
          desc |-> b.desc, status |-> b.status] : b \in Bodies(p, m)} :
        k \in Ids(p)} : m \in Methods(p)} : p \in Paths}

\* The mux patterns of newServer and each handler's switch on r.Method: the
\* code that serves the request.
Dispatch(path, method) ==
    CASE path = "/health" -> "health"
      [] path = "/stats"  -> "stats"
      [] path = "/tasks"  ->
            (CASE method = "GET"  -> "list"
               [] method = "POST" -> "create"
               [] OTHER           -> "notallowed")
      [] path = "/tasks/{id}" ->
            (CASE method = "GET"    -> "get"
               [] method = "PUT"    -> "update"
               [] method = "DELETE" -> "delete"
               [] OTHER             -> "notallowed")
      [] OTHER -> "root"

\* Task objects allocated or about to be allocated by a create in progress.
Allocated ==
    Len(heap) + Cardinality({d \in Clients : cl[d].pc = "create" /\ cl[d].title # ""})

\* jsonResponse / jsonError: the handler writes its response and returns.
Respond(c, r) ==
    [cl EXCEPT ![c] = [IdleClient EXCEPT
        !.resp = [r EXCEPT !.path = cl[c].path, !.method = cl[c].method]]]

\* m.errors.Add(1)
IncrementErrors(n) == n + 1

\* val, ok := tm.storage.Get(id): the Task pointer stored under the key, or
\* not found.
TmGet(k) ==
    IF data[k] = 0 THEN [ok |-> FALSE, ptr |-> 0, task |-> {}]
    ELSE [ok |-> TRUE, ptr |-> data[k], task |-> {heap[data[k]]}]

\* tm.List(): the Tasks of the storage.List() snapshot, as <<pointer, Task>>.
TmList == {<<data[k], heap[data[k]]>> : k \in {j \in Keys : data[j] # 0}}

\* tm.Get failing inside a handler: tm.metrics.IncrementErrors() in Get, then
\* s.metrics.IncrementErrors() and jsonError(404) in the handler.
NotFound(c, o) ==
    /\ errors' = IncrementErrors(IncrementErrors(errors))
    /\ UNCHANGED hist
    /\ cl' = Respond(c, [NoResp EXCEPT !.op = o, !.code = 404,
                                       !.msg = "task not found",
                                       !.nerr = errors' - errors])

\* A write to storage or to a stored Task by client c ends the quiet period
\* of every other client.
Disturb(h, c) ==
    [h EXCEPT !.ret = [d \in Clients |-> IF d = c THEN @[d] ELSE {}],
              !.solo = [d \in Clients |-> IF d = c THEN @[d] ELSE FALSE]]

\* Every request increments the counter twice.
IncrementRequestsTwice(n) == n + 2

\* m.requests.Add(1)
IncrementRequests(n) == n + 1

\* A listener that keeps accepting connections while Shutdown drains.
AcceptingWhileClosing == srv \in {"listening", "closing"}

\* The listener accepts a connection: ListenAndServe is serving and Shutdown
\* has not closed the listener.
Accepting == srv = "listening"

\* loggingMiddleware, then the mux dispatches to the handler. (The
\* middleware's own time.Now() is not modelled: a clock read constrains
\* later reads only to be no smaller, which they are in any case.)
Request(c) ==
    /\ Alive
    /\ Accepting
    /\ Idle(c)
    /\ requests < MaxReq
    /\ requests' = IncrementRequests(requests)
    /\ \E r \in Routes :
        LET op == Dispatch(r.path, r.method)
        IN  /\ (op = "create" /\ r.title # "") => Allocated < MaxTasks
            /\ cl' = [cl EXCEPT ![c] = [IdleClient EXCEPT !.pc = op,
                                            !.path = r.path, !.method = r.method,
                                            !.id = r.id, !.title = r.title,
                                            !.desc = r.desc, !.status = r.status]]
            /\ hist' = [hist EXCEPT
                        !.received = @ + 1,
                        !.ret[c] = IF op = "get" /\ \E t \in @ : t.id = r.id
                                   THEN @ ELSE {}]
    /\ UNCHANGED <<lc, connected, srv, data, heap, now, errors>>
    /\ UNCHANGED <<mu, st>>

\* handleRoot on the path "/": the service descriptor, whatever the method.
HandleRoot(c) ==
    /\ Alive
    /\ cl[c].pc = "root"
    /\ cl' = Respond(c, [NoResp EXCEPT !.op = "root", !.code = 200,
                                       !.msg = "Task Manager API"])
    /\ UNCHANGED <<lc, connected, srv, data, heap, now, requests, errors, hist>>
    /\ UNCHANGED <<mu, st>>

\* handleHealth: 200 "healthy" whatever the method. (The timestamp of the
\* body is a clock read that is not stored anywhere.)
HandleHealth(c) ==
    /\ Alive
    /\ cl[c].pc = "health"
    /\ cl' = Respond(c, [NoResp EXCEPT !.op = "health", !.code = 200,
                                       !.msg = "healthy"])
    /\ UNCHANGED <<lc, connected, srv, data, heap, now, requests, errors, hist>>
    /\ UNCHANGED <<mu, st>>

\* The default branch of handleTasks and of handleTaskByID.
MethodNotAllowed(c) ==
    /\ Alive
    /\ cl[c].pc = "notallowed"
    /\ cl' = Respond(c, [NoResp EXCEPT !.op = "notallowed", !.code = 405,
                                       !.msg = "Method not allowed"])
    /\ UNCHANGED <<lc, connected, srv, data, heap, now, requests, errors, hist>>
    /\ UNCHANGED <<mu, st>>

\* A Task built with the two timestamps exchanged.
NewTaskSwapped(title, desc, t1, t2, t3) ==
    [id |-> ID(t1), title |-> title, desc |-> desc, status |-> "pending",
     createdAt |-> t3, updatedAt |-> t2]

\* The Task that Create builds: three separate time.Now() calls.
NewTask(title, desc, t1, t2, t3) ==
    [id |-> ID(t1), title |-> title, desc |-> desc, status |-> "pending",
     createdAt |-> t2, updatedAt |-> t3]

\* A Create that builds and stores the Task before it looks at the title.
CreateTaskStoresFirst(c) ==
    /\ Alive
    /\ cl[c].pc = "create"
    /\ IF cl[c].title = ""
       THEN /\ errors' = IncrementErrors(IncrementErrors(errors))
            /\ heap' = Append(heap, NewTask("", cl[c].desc, now, now, now))
            /\ data' = [data EXCEPT ![ID(now)] = Len(heap) + 1]
            /\ cl' = Respond(c, [NoResp EXCEPT !.op = "create", !.code = 400,
                                               !.msg = "title is required",
                                               !.nerr = errors' - errors])
            /\ hist' = [hist EXCEPT !.versions = Append(@, {heap'[Len(heap) + 1]})]
            /\ UNCHANGED now
       ELSE /\ \E t1, t2, t3 \in now..MaxTime :
                /\ t1 <= t2 /\ t2 <= t3
                /\ heap' = Append(heap, NewTask(cl[c].title, cl[c].desc, t1, t2, t3))
                /\ now' = t3
            /\ cl' = [cl EXCEPT ![c].pc = "c_set", ![c].ptr = Len(heap) + 1]
            /\ hist' = [hist EXCEPT !.versions = Append(@, {heap'[Len(heap) + 1]})]
            /\ UNCHANGED <<errors, data>>
    /\ UNCHANGED <<lc, connected, srv, requests>>
    /\ UNCHANGED <<mu, st>>

\* handleTasks POST -> tm.Create up to the point the Task is built.
CreateTask(c) ==
    /\ Alive
    /\ cl[c].pc = "create"
    /\ IF cl[c].title = ""
       THEN /\ errors' = IncrementErrors(IncrementErrors(errors))
            /\ cl' = Respond(c, [NoResp EXCEPT !.op = "create", !.code = 400,
                                               !.msg = "title is required",
                                               !.nerr = errors' - errors])
            /\ UNCHANGED <<heap, now, hist>>
       ELSE /\ \E t1, t2, t3 \in now..MaxTime :
                /\ t1 <= t2 /\ t2 <= t3
                /\ heap' = Append(heap, NewTask(cl[c].title, cl[c].desc, t1, t2, t3))
                /\ now' = t3
            /\ cl' = [cl EXCEPT ![c].pc = "c_set", ![c].ptr = Len(heap) + 1]
            /\ hist' = [hist EXCEPT !.versions = Append(@, {heap'[Len(heap) + 1]})]
            /\ UNCHANGED errors
    /\ UNCHANGED <<lc, connected, srv, data, requests>>
    /\ UNCHANGED <<mu, st>>

\* A key formatted from the creation timestamp instead of task.ID.
SetKeyCreatedAt(task) == ID(task.createdAt)

\* The key Create stores the Task under: task.ID.
SetKey(task) == task.id

\* tm.storage.Set(task.ID, task); return task; jsonResponse(201, task).
CreateSet(c) ==
    LET p == cl[c].ptr
        k == SetKey(heap[p])
    IN  /\ Alive
        /\ cl[c].pc = "c_set"
        /\ data' = [data EXCEPT ![k] = p]
        /\ cl' = Respond(c, [NoResp EXCEPT !.op = "create", !.code = 201,
                                           !.task = {heap[p]}])
        /\ hist' = [Disturb(hist, c) EXCEPT !.life[k] = "live", !.ret[c] = {heap[p]}]
        /\ UNCHANGED <<lc, connected, srv, heap, now, requests, errors>>
        /\ UNCHANGED <<mu, st>>

\* handleTaskByID GET -> tm.Get; the Task is encoded into the response.
GetTask(c) ==
    LET g == TmGet(cl[c].id)
    IN  /\ Alive
        /\ cl[c].pc = "get"
        /\ IF ~g.ok
           THEN NotFound(c, "get")
           ELSE /\ cl' = Respond(c, [NoResp EXCEPT !.op = "get", !.code = 200,
                                        !.task = g.task,
                                        !.obs = {<<g.ptr, heap[g.ptr]>>}])
                /\ UNCHANGED <<errors, hist>>
        /\ UNCHANGED <<lc, connected, srv, data, heap, now, requests>>
        /\ UNCHANGED <<mu, st>>

\* An Update that assigns the title whether or not the argument is empty.
NextWriteAlways(c, after) ==
    IF after < 1 THEN "u_title"
    ELSE IF after < 2 /\ cl[c].desc # "" THEN "u_desc"
    ELSE IF after < 3 /\ cl[c].status # "" THEN "u_status"
    ELSE "u_time"

\* The next field Update writes, skipping the fields whose argument is empty.
NextWrite(c, after) ==
    IF after < 1 /\ cl[c].title # "" THEN "u_title"
    ELSE IF after < 2 /\ cl[c].desc # "" THEN "u_desc"
    ELSE IF after < 3 /\ cl[c].status # "" THEN "u_status"
    ELSE "u_time"

\* handleTaskByID PUT -> tm.Update: task, err := tm.Get(id).
UpdateGet(c) ==
    LET g == TmGet(cl[c].id)
    IN  /\ Alive
        /\ cl[c].pc = "update"
        /\ IF ~g.ok
           THEN NotFound(c, "update")
           ELSE /\ cl' = [cl EXCEPT ![c].pc = NextWrite(c, 0), ![c].ptr = g.ptr,
                                    ![c].old = g.task]
                /\ hist' = [hist EXCEPT !.solo[c] = TRUE]
                /\ UNCHANGED errors
        /\ UNCHANGED <<lc, connected, srv, data, heap, now, requests>>
        /\ UNCHANGED <<mu, st>>

\* task.Title = title
UpdateTitle(c) ==
    /\ Alive
    /\ cl[c].pc = "u_title"
    /\ heap' = [heap EXCEPT ![cl[c].ptr].title = cl[c].title]
    /\ cl' = [cl EXCEPT ![c].pc = NextWrite(c, 1)]
    /\ hist' = Disturb(hist, c)
    /\ UNCHANGED <<lc, connected, srv, data, now, requests, errors>>
    /\ UNCHANGED <<mu, st>>

\* task.Description = description
UpdateDescription(c) ==
    /\ Alive
    /\ cl[c].pc = "u_desc"
    /\ heap' = [heap EXCEPT ![cl[c].ptr].desc = cl[c].desc]
    /\ cl' = [cl EXCEPT ![c].pc = NextWrite(c, 2)]
    /\ hist' = Disturb(hist, c)
    /\ UNCHANGED <<lc, connected, srv, data, now, requests, errors>>
    /\ UNCHANGED <<mu, st>>

\* task.Status = status
UpdateStatus(c) ==
    /\ Alive
    /\ cl[c].pc = "u_status"
    /\ heap' = [heap EXCEPT ![cl[c].ptr].status = cl[c].status]
    /\ cl' = [cl EXCEPT ![c].pc = NextWrite(c, 3)]
    /\ hist' = Disturb(hist, c)
    /\ UNCHANGED <<lc, connected, srv, data, now, requests, errors>>
    /\ UNCHANGED <<mu, st>>

\* task.UpdatedAt = time.Now(): the last write of the update.
UpdateTime(c) ==
    LET p == cl[c].ptr
    IN  /\ Alive
        /\ cl[c].pc = "u_time"
        /\ \E t \in now..MaxTime :
            /\ heap' = [heap EXCEPT ![p].updatedAt = t]
            /\ now' = t
        /\ cl' = [cl EXCEPT ![c].pc = "u_set"]
        /\ hist' = [Disturb(hist, c) EXCEPT !.versions[p] = @ \cup {heap'[p]}]
        /\ UNCHANGED <<lc, connected, srv, data, requests, errors>>
        /\ UNCHANGED <<mu, st>>

\* A key formatted from the new update timestamp instead of the id.
UpdateSetKeyStamp(c) == ID(heap[cl[c].ptr].updatedAt)

\* The key Update stores the Task under: the id it was called with.
UpdateSetKey(c) == cl[c].id

\* tm.storage.Set(id, task); return task; jsonResponse(200, task).
UpdateSet(c) ==
    LET p == cl[c].ptr
    IN  /\ Alive
        /\ cl[c].pc = "u_set"
        /\ data' = [data EXCEPT ![UpdateSetKey(c)] = p]
        /\ cl' = Respond(c, [NoResp EXCEPT !.op = "update", !.code = 200,
                                           !.task = {heap[p]}, !.old = cl[c].old])
        /\ hist' = [Disturb(hist, c) EXCEPT !.solo[c] = FALSE]
        /\ UNCHANGED <<lc, connected, srv, heap, now, requests, errors>>
        /\ UNCHANGED <<mu, st>>

\* handleTaskByID DELETE -> tm.Delete: _, err := tm.Get(id).
DeleteGet(c) ==
    /\ Alive
    /\ cl[c].pc = "delete"
    /\ IF ~TmGet(cl[c].id).ok
       THEN NotFound(c, "delete")
       ELSE /\ cl' = [cl EXCEPT ![c].pc = "d_del"]
            /\ UNCHANGED <<errors, hist>>
    /\ UNCHANGED <<lc, connected, srv, data, heap, now, requests>>
    /\ UNCHANGED <<mu, st>>

\* tm.storage.Delete(id); return nil; jsonResponse(200, "Task deleted").
DeleteRemove(c) ==
    /\ Alive
    /\ cl[c].pc = "d_del"
    /\ data' = [data EXCEPT ![cl[c].id] = 0]
    /\ cl' = Respond(c, [NoResp EXCEPT !.op = "delete", !.code = 200,
                                       !.msg = "Task deleted"])
    /\ hist' = [Disturb(hist, c) EXCEPT !.life[cl[c].id] = "deleted",
                                        !.anyDeleted = TRUE]
    /\ UNCHANGED <<lc, connected, srv, heap, now, requests, errors>>
    /\ UNCHANGED <<mu, st>>

\* handleTasks GET -> tm.List over the storage.List() snapshot.
ListTasks(c) ==
    /\ Alive
    /\ cl[c].pc = "list"
    /\ cl' = Respond(c, [NoResp EXCEPT !.op = "list", !.code = 200,
                            !.task = {o[2] : o \in TmList}, !.obs = TmList])
    /\ UNCHANGED <<lc, connected, srv, data, heap, now, requests, errors, hist>>
    /\ UNCHANGED <<mu, st>>

\* GetStats: len(tm.List()).
TotalTasks == Cardinality({k \in Keys : data[k] # 0})

\* storage.List(): a fresh map holding the pairs of s.data, copied under the
\* read lock, as a set of <<key, pointer>>.
StorageList == {<<k, data[k]>> : k \in {j \in Keys : data[j] # 0}}

\* A List that returns s.data itself: the caller sees the store as it is now.
ListResultLive(c) == StorageList

\* The map List returned to the caller: the copy made when it ran.
ListResult(c) == cl[c].snap

\* handleStats -> tm.GetStats: tasks := tm.List(), then total_tasks,
\* total_requests and total_errors are read.
StatsList(c) ==
    /\ Alive
    /\ cl[c].pc = "stats"
    /\ cl' = [cl EXCEPT ![c].pc = "s_count",
                        ![c].snap = StorageList,
                        ![c].seen = {},
                        ![c].stats = [total |-> Cardinality(StorageList),
                                      requests |-> requests,
                                      errors |-> errors,
                                      byStatus |-> NoCount]]
    /\ UNCHANGED <<lc, connected, srv, data, heap, now, requests, errors, hist>>
    /\ UNCHANGED <<mu, st>>

\* Only "pending" tasks are counted.
CountStatusPending(m, s) == IF s = "pending" THEN [m EXCEPT ![s] = @ + 1] ELSE m

\* statusCount[task.Status]++
CountStatus(m, s) == [m EXCEPT ![s] = @ + 1]

\* One iteration of the loop over tasks: the Task's status is read from the
\* shared object and counted.
StatsCount(c) ==
    /\ Alive
    /\ cl[c].pc = "s_count"
    /\ \E e \in ListResult(c) \ cl[c].seen :
        cl' = [cl EXCEPT ![c].seen = @ \cup {e},
                         ![c].stats.byStatus = CountStatus(@, heap[e[2]].status)]
    /\ UNCHANGED <<lc, connected, srv, data, heap, now, requests, errors, hist>>
    /\ UNCHANGED <<mu, st>>

\* The loop is over: stats["by_status"] = statusCount; jsonResponse(200, stats).
StatsReturn(c) ==
    /\ Alive
    /\ cl[c].pc = "s_count"
    /\ ListResult(c) \ cl[c].seen = {}
    /\ cl' = Respond(c, [NoResp EXCEPT !.op = "stats", !.code = 200,
                                       !.stats = cl[c].stats])
    /\ UNCHANGED <<lc, connected, srv, data, heap, now, requests, errors, hist>>
    /\ UNCHANGED <<mu, st>>

\* ------------------------------------------------------------ specification
NoHist ==
    [storageWarned |-> FALSE,
     ret |-> [c \in Clients |-> {}],
     life |-> [k \in Keys |-> "never"],
     anyDeleted |-> FALSE,
     cleared |-> FALSE,
     timedOut |-> FALSE,
     versions |-> <<>>,
     received |-> 0,
     solo |-> [c \in Clients |-> FALSE],
     drain |-> FALSE]

Init ==
    /\ lc = [phase |-> "flags", flagErr |-> "nil", hooks |-> <<>>, numStarted |-> 0,
             startLog |-> <<>>, stopLog |-> <<>>, stopErrs |-> <<>>,
             startErr |-> "nil", result |-> <<"none", "nil">>, exitCode |-> -1]
    /\ connected = FALSE
    /\ srv = "new"
    /\ data = EmptyStore
    /\ heap = <<>>
    /\ now = 0
    /\ requests = 0
    /\ errors = 0
    /\ cl = [c \in Clients |-> IdleClient]
    /\ mu = Unlocked
    /\ st = [g \in Callers |-> IdleCaller]
    /\ hist = NoHist

Handler(c) ==
    \/ Request(c)
    \/ CreateTask(c)
    \/ CreateSet(c)
    \/ GetTask(c)
    \/ UpdateGet(c)
    \/ UpdateTitle(c)
    \/ UpdateDescription(c)
    \/ UpdateStatus(c)
    \/ UpdateTime(c)
    \/ UpdateSet(c)
    \/ DeleteGet(c)
    \/ DeleteRemove(c)
    \/ ListTasks(c)
    \/ HandleRoot(c)
    \/ HandleHealth(c)
    \/ MethodNotAllowed(c)
    \/ StatsList(c)
    \/ StatsCount(c)
    \/ StatsReturn(c)

Lifecycle ==
    \/ ParseFlags
    \/ newDatabase \/ newStorage \/ newMetrics \/ newTaskManager \/ newServer
    \/ databaseOnStart \/ storageOnStart \/ metricsOnStart \/ tasksOnStart
    \/ apiOnStart
    \/ Interrupt
    \/ apiOnStopBegin \/ apiOnStopReturn \/ tasksOnStop \/ metricsOnStop
    \/ storageOnStop \/ databaseOnStop
    \/ RunReturns

Next == Lifecycle \/ \E c \in Clients : Handler(c)

Spec == Init /\ [][Next]_vars

\* The same system with a start hook that can fail.
NextFault == Next \/ StartHookFails

SpecFault == Init /\ [][NextFault]_vars

\* ------------------------------------------------- storage under its lock
\* The storage operations at the grain of the lock: each one acquires
\* s.mu, runs its body and releases s.mu on return (defer). The handlers
\* above take each operation as one step.

\* The methods of Storage the handlers call.
StorageOps == {"Set", "Get", "Delete", "List", "Count"}

\* Delete under the read lock.
LockOfDeleteRead(op) ==
    IF op \in {"Set", "OnStop"} THEN "Lock" ELSE "RLock"

\* The lock each operation takes: s.mu.Lock() in Set, Delete and the stop
\* hook, s.mu.RLock() in Get, List and Count.
LockOf(op) ==
    IF op \in {"Set", "Delete", "OnStop"} THEN "Lock" ELSE "RLock"

\* A goroutine serving a request calls a storage operation.
StorageCall(g) ==
    /\ st[g].stage = "idle"
    /\ \E o \in StorageOps : st' = [st EXCEPT ![g] = [op |-> o, stage |-> "wait"]]
    /\ UNCHANGED <<lc, connected, srv, data, heap, now, requests, errors, cl, mu, hist>>

\* The container runs the storage stop hook, once.
StorageStop ==
    /\ st[Hook].stage = "idle"
    /\ st' = [st EXCEPT ![Hook] = [op |-> "OnStop", stage |-> "wait"]]
    /\ UNCHANGED <<lc, connected, srv, data, heap, now, requests, errors, cl, mu, hist>>

\* s.mu.Lock(): granted when no goroutine holds the lock in either mode.
Lock(g) ==
    /\ st[g].stage = "wait"
    /\ LockOf(st[g].op) = "Lock"
    /\ mu.w = {} /\ mu.r = {}
    /\ mu' = [mu EXCEPT !.w = {g}]
    /\ st' = [st EXCEPT ![g].stage = "in"]
    /\ UNCHANGED <<lc, connected, srv, data, heap, now, requests, errors, cl, hist>>

\* s.mu.RLock(): granted when no goroutine holds the write lock.
RLock(g) ==
    /\ st[g].stage = "wait"
    /\ LockOf(st[g].op) = "RLock"
    /\ mu.w = {}
    /\ mu' = [mu EXCEPT !.r = @ \cup {g}]
    /\ st' = [st EXCEPT ![g].stage = "in"]
    /\ UNCHANGED <<lc, connected, srv, data, heap, now, requests, errors, cl, hist>>

\* The deferred s.mu.Unlock() or s.mu.RUnlock() of the operation g is in.
Release(g) ==
    IF LockOf(st[g].op) = "Lock" THEN [mu EXCEPT !.w = @ \ {g}]
    ELSE [mu EXCEPT !.r = @ \ {g}]

\* The operation returns: the lock is released.
Return(g) ==
    /\ mu' = Release(g)
    /\ st' = [st EXCEPT ![g] = IF g = Hook THEN [op |-> "OnStop", stage |-> "done"]
                                ELSE IdleCaller]

\* Set: s.data[key] = value.
Set(g) ==
    /\ st[g].stage = "in" /\ st[g].op = "Set"
    /\ \E k \in Keys, v \in 1..MaxTasks : data' = [data EXCEPT ![k] = v]
    /\ Return(g)
    /\ UNCHANGED <<lc, connected, srv, heap, now, requests, errors, cl, hist>>

\* Get: val, ok := s.data[key].
Get(g) ==
    /\ st[g].stage = "in" /\ st[g].op = "Get"
    /\ Return(g)
    /\ UNCHANGED <<lc, connected, srv, data, heap, now, requests, errors, cl, hist>>

\* Delete: delete(s.data, key).
Delete(g) ==
    /\ st[g].stage = "in" /\ st[g].op = "Delete"
    /\ \E k \in Keys : data' = [data EXCEPT ![k] = 0]
    /\ Return(g)
    /\ UNCHANGED <<lc, connected, srv, heap, now, requests, errors, cl, hist>>

\* List: the pairs of s.data are copied into a fresh map.
List(g) ==
    /\ st[g].stage = "in" /\ st[g].op = "List"
    /\ Return(g)
    /\ UNCHANGED <<lc, connected, srv, data, heap, now, requests, errors, cl, hist>>

\* Count: len(s.data).
Count(g) ==
    /\ st[g].stage = "in" /\ st[g].op = "Count"
    /\ Return(g)
    /\ UNCHANGED <<lc, connected, srv, data, heap, now, requests, errors, cl, hist>>

\* The stop hook's body: s.data = make(map[string]interface{}).
Clear(g) ==
    /\ st[g].stage = "in" /\ st[g].op = "OnStop"
    /\ data' = EmptyStore
    /\ Return(g)
    /\ UNCHANGED <<lc, connected, srv, heap, now, requests, errors, cl, hist>>

\* The application running, its start hooks completed.
InitLock ==
    /\ lc = [phase |-> "run", flagErr |-> "nil", hooks |-> Modules,
             numStarted |-> Len(Modules), startLog |-> Modules, stopLog |-> <<>>,
             stopErrs |-> <<>>, startErr |-> "nil", result |-> <<"none", "nil">>,
             exitCode |-> -1]
    /\ connected = TRUE
    /\ srv = "listening"
    /\ data = EmptyStore
    /\ heap = <<>>
    /\ now = 0
    /\ requests = 0
    /\ errors = 0
    /\ cl = [c \in Clients |-> IdleClient]
    /\ mu = Unlocked
    /\ st = [g \in Callers |-> IdleCaller]
    /\ hist = NoHist

StorageOp(g) ==
    \/ Lock(g)
    \/ RLock(g)
    \/ Set(g)
    \/ Get(g)
    \/ Delete(g)
    \/ List(g)
    \/ Count(g)
    \/ Clear(g)

NextLock ==
    \/ \E g \in Clients : StorageCall(g)
    \/ StorageStop
    \/ \E g \in Callers : StorageOp(g)

SpecLock == InitLock /\ [][NextLock]_vars

\* -------------------------------------------------------------- properties
Occurs(s, x) == \E i \in 1..Len(s) : s[i] = x

IsPrefix(s, t) == Len(s) <= Len(t) /\ \A i \in 1..Len(s) : s[i] = t[i]

NoDuplicates(s) == \A i, j \in 1..Len(s) : s[i] = s[j] => i = j

\* b's start hook completed only after a's.
StartedBefore(a, b) ==
    Occurs(lc.startLog, b) =>
        \E i, j \in 1..Len(lc.startLog) :
            i < j /\ lc.startLog[i] = a /\ lc.startLog[j] = b

DependsOn ==
    {<<"database", "storage">>, <<"storage", "tasks">>, <<"tasks", "api">>,
     <<"metrics", "tasks">>, <<"metrics", "api">>}

\* C1: start hooks run in the order they were appended, every component's
\* start hook after those of the components it depends on (database before
\* storage before tasks before api, metrics before tasks and api); on
\* interrupt the stop hooks run in the exact reverse of the order in which
\* the start hooks completed, all of them by the time run returns.
C1_HookOrder ==
    /\ IsPrefix(lc.startLog, lc.hooks)
    /\ \A pr \in DependsOn : StartedBefore(pr[1], pr[2])
    /\ lc.phase = "run" => Len(lc.startLog) = Len(Modules)
    /\ IsPrefix(lc.stopLog, Reverse(lc.startLog))
    /\ lc.phase = "exit" => lc.stopLog = Reverse(lc.startLog)

C1_Witness ==
    /\ lc.phase = "exit"
    /\ lc.startLog = <<"database", "storage", "metrics", "tasks", "api">>
    /\ lc.stopLog = <<"api", "tasks", "metrics", "storage", "database">>

\* C2: when the start hook at position k fails, the stop hooks of the hooks
\* before it run exactly once each, in reverse order; no start or stop hook
\* from position k on is ever invoked; run returns a start error; and no
\* HTTP handler ever accepts a request.
C2_StartFailure ==
    lc.startErr # "nil" =>
        LET k == Len(lc.startLog)
        IN  /\ lc.hooks[k + 1] = lc.startErr
            /\ IsPrefix(lc.startLog, lc.hooks)
            /\ IsPrefix(lc.stopLog, Reverse(lc.startLog))
            /\ NoDuplicates(lc.stopLog)
            /\ \A i \in (k + 1)..Len(lc.hooks) :
                ~Occurs(lc.startLog, lc.hooks[i]) /\ ~Occurs(lc.stopLog, lc.hooks[i])
            /\ lc.phase = "exit" =>
                /\ lc.stopLog = Reverse(lc.startLog)
                /\ lc.result[1] = "StartError"
                /\ lc.exitCode = 1
            /\ srv # "listening"
            /\ requests = 0
            /\ AllIdle

C2_Witness ==
    /\ lc.phase = "exit"
    /\ lc.startErr = "tasks"
    /\ lc.stopLog = <<"metrics", "storage", "database">>

\* C3: when the API server's stop hook fails because graceful shutdown
\* exceeded its deadline, the remaining stop hooks (tasks, metrics, storage,
\* database) still run in reverse order and run returns a shutdown error
\* carrying that first stop-hook error.
C3_StopErrorContinues ==
    hist.timedOut =>
        /\ IsPrefix(lc.stopLog, Reverse(lc.startLog))
        /\ lc.stopLog # <<>> /\ lc.stopLog[1] = "api"
        /\ lc.stopErrs # <<>> /\ lc.stopErrs[1] = <<"api", "context deadline exceeded">>
        /\ lc.phase = "exit" =>
            /\ lc.stopLog = <<"api", "tasks", "metrics", "storage", "database">>
            /\ lc.result = <<"ShutdownError", <<"api", "context deadline exceeded">>>>

C3_Witness ==
    /\ hist.timedOut
    /\ lc.phase = "exit"
    /\ Len(lc.stopLog) = Len(Modules)

\* C4: after create returned Task T to a client, a following get(T.id) (no
\* other write to storage or to a stored Task in between) succeeds and
\* returns a Task equal to T in id, title, description, status, created_at
\* and updated_at.
C4_GetAfterCreate ==
    \A c \in Clients : \A T \in hist.ret[c] :
        /\ TmGet(T.id).ok
        /\ TmGet(T.id).task = {T}
        /\ cl[c].resp.op = "get" => (cl[c].resp.code = 200 /\ cl[c].resp.task = {T})

C4_Witness ==
    \E c \in Clients :
        /\ hist.ret[c] # {}
        /\ cl[c].resp.op = "get"
        /\ cl[c].resp.code = 200

\* C5: once delete(id) has returned success (and id has not been created
\* again), the next get(id) and the next delete(id) find nothing under id
\* and return NotFound.
C5_DeletedStaysGone ==
    \A k \in Keys : hist.life[k] = "deleted" => ~TmGet(k).ok

\* C6: list() returns exactly one Task for each id stored by a successful
\* create and not since successfully deleted, and no other Task.
C6_ListIsCreatedMinusDeleted ==
    ~hist.cleared =>
        /\ {o[2].id : o \in TmList} = {k \in Keys : hist.life[k] = "live"}
        /\ Cardinality(TmList) = Cardinality({k \in Keys : hist.life[k] = "live"})

\* C7: when every create has returned and nothing was deleted, total_tasks
\* equals the number of successful creates and the Tasks they returned have
\* pairwise distinct ids.
C7_ConcurrentCreatesDistinct ==
    (AllIdle /\ ~hist.anyDeleted /\ ~hist.cleared) =>
        /\ TotalTasks = Len(heap)
        /\ \A p, q \in 1..Len(heap) : heap[p].id = heap[q].id => p = q

\* Some update is between its first and its last write to Task p.
WriterOn(p) ==
    \E d \in Clients :
        cl[d].ptr = p /\ cl[d].pc \in {"u_title", "u_desc", "u_status", "u_time"}

\* C8: a Task observed by a get or list is the Task as some update left it
\* (or as create built it): entirely the state before or entirely the state
\* after an update, never a mixture of old and new fields.
C8_NoTornRead ==
    \A c \in Clients : \A o \in cl[c].resp.obs :
        ~WriterOn(o[1]) => o[2] \in hist.versions[o[1]]

\* C9: a POST /tasks with an empty title is answered 400 "title is
\* required" and handling it increases the error counter by exactly one.
C9_EmptyTitleOneError ==
    \A c \in Clients :
        (cl[c].resp.op = "create" /\ cl[c].resp.code = 400) =>
            /\ cl[c].resp.msg = "title is required"
            /\ cl[c].resp.nerr = 1

\* C10: the Task a successful update returns has updated_at strictly greater
\* than the task had before the update, and the same created_at.
C10_UpdatedAtStrictlyGreater ==
    \A c \in Clients :
        (cl[c].resp.op = "update" /\ cl[c].resp.code = 200) =>
            \A T \in cl[c].resp.task : \A O \in cl[c].resp.old :
                /\ T.updatedAt > O.updatedAt
                /\ T.createdAt = O.createdAt

\* Client c takes a step of the update it is running.
UpdateStep(c) ==
    /\ cl[c].pc \in {"u_title", "u_desc", "u_status", "u_time", "u_set"}
    /\ cl'[c] # cl[c]

\* The value update leaves in a field: the argument if it is non-empty, else
\* the field's previous value.
Replaced(arg, prev) == IF arg # "" THEN arg ELSE prev

RECURSIVE SumCounts(_, _)
SumCounts(m, S) ==
    IF S = {} THEN 0
    ELSE LET x == CHOOSE y \in S : TRUE
         IN  m[x] + SumCounts(m, S \ {x})

Stored == {k \in Keys : data[k] # 0}

C14_CreateTimestampsEqual ==
    \A c \in Clients :
        (cl[c].resp.op = "create" /\ cl[c].resp.code = 201) =>
            \A T \in cl[c].resp.task :
                /\ T.status = "pending"
                /\ T.createdAt = T.updatedAt

\* C15: the process exit code is 0 after a clean shutdown, 1 when a start
\* hook or a stop hook failed, and 2 when flag parsing failed.
C15_ExitCodes ==
    lc.phase = "exit" =>
        lc.exitCode = IF lc.flagErr # "nil" THEN 2
                      ELSE IF lc.startErr # "nil" \/ lc.stopErrs # <<>> THEN 1
                      ELSE 0

\* C16: the flag set registered from the module tree holds --api-host
\* (default localhost), --api-port (default 8080) and --log-level (default
\* info), and parsing never fails on any of them.
C16_FlagsRecognised ==
    /\ {<<"api-host", "localhost">>, <<"api-port", "8080">>, <<"log-level", "info">>}
        \subseteq RegisterFlags
    /\ lc.flagErr \notin {"api-host", "api-port", "log-level"}

\* C17: for every path of the route table, a request whose method is not
\* listed for that path is answered with status 405.
C17_UnlistedMethod405 ==
    \A c \in Clients :
        (cl[c].resp.op # "none" /\ cl[c].resp.method \notin Listed(cl[c].resp.path)) =>
            cl[c].resp.code = 405

\* C18: neither the request counter nor the error counter ever decreases,
\* and whenever every request received has been handled the request counter
\* equals the number of requests received.
C18_CountersMonotone ==
    /\ [](AllIdle => requests = hist.received)
    /\ [][requests' >= requests /\ errors' >= errors]_vars

C18_Witness ==
    /\ AllIdle
    /\ hist.received = MaxReq
    /\ requests = MaxReq
    /\ errors > 0
    /\ \A c \in Clients : cl[c].resp.op # "none"

\* C19: the database is connected exactly from the completion of its start
\* hook until its stop hook has run, and in every state ping succeeds if and
\* only if is_connected is true, failing otherwise.
C19_ConnectedWhileStarted ==
    /\ IsConnected <=> (Occurs(lc.startLog, "database") /\ ~Occurs(lc.stopLog, "database"))
    /\ (Ping = "nil") <=> IsConnected
    /\ ~IsConnected => Ping = "context deadline exceeded"

C19_Witness ==
    /\ Occurs(lc.startLog, "database")
    /\ Occurs(lc.stopLog, "database")
    /\ ~IsConnected
    /\ Ping # "nil"

\* C20: the map storage list() returned holds exactly the pairs that were in
\* the store at the instant it ran, and no later set, delete or stop-hook
\* clear of the store changes it.
C20_ListIsSnapshot ==
    [][\A c \in Clients :
        /\ (cl[c].pc = "stats" /\ cl'[c].pc = "s_count") => ListResult(c)' = StorageList
        /\ (cl[c].pc = "s_count" /\ cl'[c].pc = "s_count") => ListResult(c)' = ListResult(c)
      ]_vars

C20_Witness ==
    \E c \in Clients :
        /\ cl[c].pc = "s_count"
        /\ ListResult(c) # {}
        /\ StorageList = {}
        /\ hist.cleared

\* C21: whenever the API start hook has returned success the listener is
\* bound and serving, and a failure to bind the address is reported as a
\* failure of the start hook.
C21_StartBindsListener ==
    /\ (Occurs(lc.startLog, "api") /\ lc.phase = "run") => srv = "listening"
    /\ srv = "bindfailed" => lc.startErr = "api"

\* The first step of a TaskManager operation of client c fails: create with
\* an empty title (400), or get, update or delete of an absent id (404).
FailingStep(c) ==
    /\ cl[c].pc \in {"create", "get", "update", "delete"}
    /\ cl'[c].pc = "idle"
    /\ cl'[c].resp.code \in {400, 404}

\* C24: a TaskManager operation that fails (create with an empty title;
\* get, update or delete of an id that is not stored) makes no write: the
\* storage map and the Tasks it holds are after the call what they were
\* before it.
C24_FailureLeavesStorage ==
    [][\A c \in Clients : FailingStep(c) => (data' = data /\ heap' = heap)]_vars

C24_Witness ==
    \E c, d \in Clients :
        /\ cl[c].resp.op = "create" /\ cl[c].resp.code = 400
        /\ cl[d].resp.op = "delete" /\ cl[d].resp.code = 404
        /\ Cardinality({k \in Keys : data[k] # 0}) = 1

\* C25: when delete(id) and update(id, ...) of the same stored task have
\* both returned and the delete returned success (the id not created again
\* since), the task is absent from storage.
C25_UpdateDoesNotWriteBack ==
    \A c, d \in Clients :
        (/\ Idle(c) /\ Idle(d)
         /\ cl[c].resp.op = "delete" /\ cl[c].resp.code = 200
         /\ cl[d].resp.op = "update" /\ cl[d].resp.code = 200) =>
            \A T \in cl[d].resp.task :
                hist.life[T.id] = "deleted" => ~TmGet(T.id).ok

\* C26: of two concurrent delete(id) calls for the same stored id exactly
\* one returns success: a delete that returns success is the one that
\* removed the entry, which is still present when its storage.Delete runs.
C26_OneDeleteSucceeds ==
    [][\A c \in Clients :
        (/\ cl[c].pc = "d_del"
         /\ cl'[c].resp.op = "delete" /\ cl'[c].resp.code = 200
         /\ ~hist.cleared) => TmGet(cl[c].id).ok
      ]_vars

\* C27: the database is connected when the storage start hook executes, so
\* its not-connected warning is never logged; the database start hook has
\* completed before it, and the storage start hook returns success.
C27_StorageStartsConnected ==
    /\ ~hist.storageWarned
    /\ StartedBefore("database", "storage")
    /\ lc.startErr # "storage"
    /\ lc.phase = "run" => Occurs(lc.startLog, "storage")

C27_Witness ==
    /\ lc.phase = "start"
    /\ lc.startLog = <<"database", "storage">>
    /\ IsConnected
    /\ ~hist.storageWarned

\* C28: in every reachable state, each entry of storage is stored under the
\* key equal to the id of the Task it holds.
C28_KeyIsTaskId ==
    \A k \in Keys : data[k] # 0 => heap[data[k]].id = k

C28_Witness ==
    /\ \A k \in Keys : data[k] # 0
    /\ \E c \in Clients : cl[c].resp.op = "update" /\ cl[c].resp.code = 200

StopOrder == <<"api", "tasks", "metrics", "storage", "database">>

\* No request enters the server in this step.
NoneAccepted ==
    /\ requests' = requests
    /\ \A c \in Clients : Idle(c) => cl'[c].pc = "idle"

\* A step of the shutdown leaves every request as it is.
RequestsUntouched == (lc' # lc \/ srv' # srv) => cl' = cl

\* C22: when the API stop hook begins with requests in flight and they
\* finish before the shutdown deadline, every request has completed, the
\* API stop hook returned no error, the remaining stop hooks run after it
\* in order and the process exits with code 0; once the API stop hook has
\* begun no new request is accepted, and no step of the shutdown changes a
\* request in flight.
C22_GracefulShutdown ==
    /\ []((hist.drain /\ Occurs(lc.stopLog, "api")) =>
            /\ AllIdle
            /\ \E c \in Clients : cl[c].resp.code # 0
            /\ lc.stopErrs = <<>>
            /\ IsPrefix(lc.stopLog, StopOrder)
            /\ lc.phase = "exit" => (lc.stopLog = StopOrder /\ lc.exitCode = 0))
    /\ [][(srv \in {"closing", "closed"}) => NoneAccepted]_vars
    /\ [][RequestsUntouched]_vars

C22_Witness ==
    /\ lc.phase = "exit"
    /\ lc.exitCode = 0
    /\ hist.drain
    /\ \E c \in Clients : cl[c].resp.op = "create" /\ cl[c].resp.code = 201

\* The goroutines inside the critical section of a storage operation.
Inside == {g \in Callers : st[g].stage = "in"}

\* The operations that write s.data, and those that only read it.
Writes == {"Set", "Delete", "OnStop"}

\* C23: every storage operation runs under the one reader-writer lock: a
\* writer (set, delete, the stop hook's clear) inside its critical section
\* holds the write lock and is the only goroutine inside one; a reader (get,
\* list, count) inside its section holds a read lock while no writer is
\* inside; and the map changes only in a step of the write lock's holder.
C23_ReaderWriterLock ==
    /\ [](\A g \in Inside :
            IF st[g].op \in Writes
            THEN mu.w = {g} /\ mu.r = {} /\ Inside = {g}
            ELSE g \in mu.r /\ mu.w = {})
    /\ [][data' # data => \E g \in mu.w : st[g].stage = "in" /\ st'[g].stage # "in"]_vars

C23_Witness ==
    \E g, h \in Clients :
        /\ g # h
        /\ {g, h} \subseteq Inside
        /\ st[g].op = "Get" /\ st[h].op = "List"
        /\ st[Hook].stage = "wait"
        /\ \E k \in Keys : data[k] # 0

====
